---- MODULE Spec2Model ----
(***************************************************************************)
(* Model of servers/filesystem/main.py: the path guard (normalize_path),   *)
(* the pending_confirmations table and the route handlers built on them.   *)
(*                                                                         *)
(* A path name is a sequence of segments; a segment is an atom whose       *)
(* spelling (Spell) gives the characters str(path) is made of, so that the *)
(* guard's test on strings is computed on strings.  The filesystem is a    *)
(* function from absolute paths to nodes.  Handlers are async functions    *)
(* without an await, so each runs as one atomic step of the event loop.    *)
(*                                                                         *)
(* The last part models servers/memory/main.py: the knowledge graph kept   *)
(* in one file, and the handlers that read and rewrite it.                 *)
(***************************************************************************)
EXTENDS Integers, Sequences, FiniteSets, TLC

VARIABLES fs, pending_confirmations, now, uuidCount, request, response, guard, inflight,
          memory_file

vars == <<fs, pending_confirmations, now, uuidCount, request, response, guard, inflight, memory_file>>

\* ---------------------------------------------------------------- bounds
MaxTime == 3
MaxTokens == 2
MaxOpsTokens == 1

\* timedelta(minutes=2): the clock of the model counts minutes
TOKEN_TTL == 2

\* confirmation_token: Optional[str] = None; the tokens are 1, 2, ...
None == 0

\* servers/memory/main.py keeps its graph in the file MEMORY_FILE_PATH: the
\* file before the first save_graph
NoMemoryFile == [exists |-> FALSE, lines |-> <<>>]

\* ---------------------------------------------------------------- strings
Spell(seg) ==
    CASE seg = "data"     -> <<"d", "a", "t", "a">>
      [] seg = "data2"    -> <<"d", "a", "t", "a", "2">>
      [] seg = "DATA"     -> <<"D", "A", "T", "A">>
      [] seg = "etc"      -> <<"e", "t", "c">>
      [] seg = "passwd"   -> <<"p", "a", "s", "s", "w", "d">>
      [] seg = "sub"      -> <<"s", "u", "b">>
      [] seg = "file.txt" -> <<"f", "i", "l", "e", ".", "t", "x", "t">>
      [] seg = "new"      -> <<"n", "e", "w">>
      [] seg = "link"     -> <<"l", "i", "n", "k">>
      [] seg = "link2"    -> <<"l", "i", "n", "k", "2">>
      [] seg = "fifo"     -> <<"f", "i", "f", "o">>
      [] seg = "x"        -> <<"x">>
      [] seg = "tmp"      -> <<"t", "m", "p">>
      [] seg = "a.log"    -> <<"a", ".", "l", "o", "g">>
      [] seg = "b.log"    -> <<"b", ".", "l", "o", "g">>
      [] seg = ".."       -> <<".", ".">>
      [] seg = "."        -> <<".">>

Names == {"data", "data2", "DATA", "etc", "passwd", "sub", "file.txt", "new",
          "link", "link2", "fifo", "x", "tmp", "a.log", "b.log"}

\* str.lower() on the characters the spellings use
Lower(c) ==
    CASE c = "A" -> "a"
      [] c = "D" -> "d"
      [] c = "T" -> "t"
      [] OTHER   -> c

LowerStr(s) == [i \in 1..Len(s) |-> Lower(s[i])]

\* str.startswith
StartsWith(s, prefix) ==
    /\ Len(prefix) <= Len(s)
    /\ SubSeq(s, 1, Len(prefix)) = prefix

\* ---------------------------------------------------------------- paths
\* str(pathlib.Path) of an absolute path
RECURSIVE PathStr(_)
PathStr(p) ==
    IF p = <<>> THEN <<"/">>
    ELSE IF Len(p) = 1 THEN <<"/">> \o Spell(p[1])
    ELSE PathStr(SubSeq(p, 1, Len(p) - 1)) \o <<"/">> \o Spell(p[Len(p)])

\* the characters of s before its first c (all of s when it has none)
RECURSIVE Before(_, _)
Before(s, c) ==
    IF s = <<>> \/ Head(s) = c THEN <<>>
    ELSE <<Head(s)>> \o Before(Tail(s), c)

\* s.split("/") without the empty parts
RECURSIVE SplitSlash(_)
SplitSlash(s) ==
    IF s = <<>> THEN <<>>
    ELSE IF Head(s) = "/" THEN SplitSlash(Tail(s))
    ELSE LET part == Before(s, "/")
         IN  <<part>> \o SplitSlash(SubSeq(s, Len(part) + 1, Len(s)))

\* the segment a part of a path string spells
Unspell(part) == CHOOSE n \in Names \cup {"..", "."} : Spell(n) = part

\* pathlib.Path(s) for an absolute string
ParsePath(s) ==
    LET parts == SplitSlash(s)
    IN  [i \in 1..Len(parts) |-> Unspell(parts[i])]

Parent(p) == SubSeq(p, 1, Len(p) - 1)

IsPrefix(p, q) == Len(p) <= Len(q) /\ SubSeq(q, 1, Len(p)) = p

\* the environment of the process: $HOME and the working directory
HOME == <<"data">>
CWD == <<"data">>

\* a requested path: "/a/b" (abs), "~/a/b" (home) or "a/b" (rel)
Abs(segs) == [anchor |-> "abs", segs |-> segs]
Home(segs) == [anchor |-> "home", segs |-> segs]
Rel(segs) == [anchor |-> "rel", segs |-> segs]

\* os.path.expanduser
expanduser(p) ==
    IF p.anchor = "home" THEN Abs(HOME \o p.segs) ELSE p

RECURSIVE RealPathOneLink(_, _, _)
RealPathOneLink(f, cur, rest) ==
    IF rest = <<>> THEN cur
    ELSE LET name == Head(rest)
             new  == Append(cur, name)
         IN  IF name = "." THEN RealPathOneLink(f, cur, Tail(rest))
             ELSE IF name = ".."
                  THEN RealPathOneLink(f, IF cur = <<>> THEN <<>> ELSE Parent(cur), Tail(rest))
             ELSE IF new \in DOMAIN f /\ f[new].type = "link"
                  THEN RealPathOneLink(f, f[new].target, Tail(rest))
             ELSE RealPathOneLink(f, new, Tail(rest))

\* os.path.realpath, as pathlib's resolve() computes it: "." dropped, ".."
\* pops the resolved prefix, a symlink is replaced by its (absolute) target
RECURSIVE RealPath(_, _, _)
RealPath(f, cur, rest) ==
    IF rest = <<>> THEN cur
    ELSE LET name == Head(rest)
             new  == Append(cur, name)
         IN  IF name = "." THEN RealPath(f, cur, Tail(rest))
             ELSE IF name = ".."
                  THEN RealPath(f, IF cur = <<>> THEN <<>> ELSE Parent(cur), Tail(rest))
             ELSE IF new \in DOMAIN f /\ f[new].type = "link"
                  THEN RealPath(f, <<>>, f[new].target \o Tail(rest))
             ELSE RealPath(f, new, Tail(rest))

resolve(p, f) ==
    RealPath(f, <<>>, IF p.anchor = "rel" THEN CWD \o p.segs ELSE p.segs)

\* config.ALLOWED_DIRECTORIES: the allowed roots, as strings
ALLOWED_DIRECTORIES == << <<"/", "d", "a", "t", "a">> >>

\* line 44: str(requested).lower().startswith(allowed.lower())
PrefixMatch(requested, allowed) ==
    StartsWith(LowerStr(PathStr(requested)), LowerStr(allowed))

\* normalize_path: the resolved path, or the 403 it raises
normalize_path(requested_path, f) ==
    LET requested == resolve(expanduser(requested_path), f)
    IN  IF \E i \in 1..Len(ALLOWED_DIRECTORIES) :
               PrefixMatch(requested, ALLOWED_DIRECTORIES[i])
        THEN [ok |-> TRUE, path |-> requested]
        ELSE [ok |-> FALSE, status |-> 403, error |-> "Access Denied",
              requested_path |-> PathStr(requested),
              allowed_directories |-> ALLOWED_DIRECTORIES]

\* ---------------------------------------------------------------- filesystem
Dir == [type |-> "dir"]
File(content) == [type |-> "file", content |-> content]
Link(target) == [type |-> "link", target |-> target]
Other == [type |-> "other"]

\* the tree the server starts on: the allowed root /data, a sibling whose
\* name starts with the root's, a root differing in case only, and /etc
InitFS ==
    (<<>> :> Dir)
    @@ (<<"data">> :> Dir)
    @@ (<<"data", "sub">> :> Dir)
    @@ (<<"data", "sub", "file.txt">> :> File(<<"a", "b", "a">>))
    @@ (<<"data", "fifo">> :> Other)
    @@ (<<"data", "link">> :> Link(<<"etc">>))
    @@ (<<"data2">> :> Dir)
    @@ (<<"data2", "x">> :> File(<<"b">>))
    @@ (<<"DATA">> :> Dir)
    @@ (<<"etc">> :> Dir)
    @@ (<<"etc", "passwd">> :> File(<<"a">>))

existsParent(f, p) == p # <<>> /\ Parent(p) \in DOMAIN f

\* Path.exists / is_file / is_dir of a resolved path
exists(f, p) == p \in DOMAIN f
is_file(f, p) == p \in DOMAIN f /\ f[p].type = "file"
is_dir(f, p) == p \in DOMAIN f /\ f[p].type = "dir"

NoChildren(f, p) == {}

Children(f, p) == {q \in DOMAIN f : Len(q) = Len(p) + 1 /\ IsPrefix(p, q)}
Descendants(f, p) == {q \in DOMAIN f : Len(q) > Len(p) /\ IsPrefix(p, q)}

RemoveKeepingFiles(f, S) == [q \in DOMAIN f \ {r \in S : f[r].type = "dir"} |-> f[q]]

Remove(f, S) == [q \in DOMAIN f \ S |-> f[q]]

\* what a failing shutil.rmtree may already have removed: entries below
\* the directory, each together with everything below it
PartialRemovals(f, p) ==
    {S \in SUBSET Descendants(f, p) :
        \A q \in S : Descendants(f, q) \subseteq S}

\* ---------------------------------------------------------------- delete_path
ExpiryTimeOneMinute(t) == t + 1

\* line 366: datetime.now(timezone.utc) + timedelta(minutes=2)
ExpiryTime(t) == t + TOKEN_TTL

TokenExpiredAtExpiry(t, expiry_time) == t >= expiry_time

\* line 385: datetime.now(timezone.utc) > expiry_time
TokenExpired(t, expiry_time) == t > expiry_time

ParametersDifferPathOnly(stored_request_data, data) ==
    stored_request_data.path # data.path

ParametersDifferNormalized(stored_request_data, data) ==
    \/ resolve(expanduser(stored_request_data.path), fs) # resolve(expanduser(data.path), fs)
    \/ stored_request_data.recursive # data.recursive

\* line 390: path and recursive flag must match the original request
ParametersDiffer(stored_request_data, data) ==
    \/ stored_request_data.path # data.path
    \/ stored_request_data.recursive # data.recursive

DelTouchingOthers(table, token) ==
    [t \in DOMAIN table \ {token} |-> [table[t] EXCEPT !.expiry_time = 0]]

Del(table, token) == [t \in DOMAIN table \ {token} |-> table[t]]

Reply(status, kind, body) == [status |-> status, kind |-> kind, body |-> body]

\* lines 396-417: the body of the try block.  oserror is what the operating
\* system answers to unlink / rmtree / rmdir: "none", "PermissionError" or
\* another "OSError"; partial is what a failing rmtree removed before it
DeletionStep(f, path, data, oserror, partial) ==
    IF ~exists(f, path)
    THEN [raised |-> "HTTPException", fs |-> f, reply |-> Reply(404, "NotFound", data.path)]
    ELSE IF is_file(f, path)
    THEN IF oserror = "none"
         THEN [raised |-> "none", fs |-> Remove(f, {path}),
               reply |-> Reply(200, "DeletedFile", data.path)]
         ELSE [raised |-> oserror, fs |-> f, reply |-> Reply(0, "unset", data.path)]
    ELSE IF is_dir(f, path)
    THEN IF data.recursive
         THEN IF oserror = "none"
              THEN [raised |-> "none", fs |-> Remove(f, {path} \cup Descendants(f, path)),
                    reply |-> Reply(200, "DeletedRecursively", data.path)]
              ELSE [raised |-> oserror, fs |-> Remove(f, partial), reply |-> Reply(0, "unset", data.path)]
         ELSE IF oserror = "none" /\ Children(f, path) = {}
              THEN [raised |-> "none", fs |-> Remove(f, {path}),
                    reply |-> Reply(200, "DeletedEmptyDirectory", data.path)]
              \* except OSError (PermissionError is an OSError): re-raised as 400
              ELSE [raised |-> "HTTPException", fs |-> f,
                    reply |-> Reply(400, "DirectoryNotEmpty", data.path)]
    ELSE [raised |-> "HTTPException", fs |-> f,
          reply |-> Reply(400, "NotFileOrDirectory", data.path)]

EvictsTokenUnlessHTTPException(raised) == raised \notin {"PermissionError", "HTTPException"}

EvictsTokenNever(raised) == FALSE

EvictsTokenOnSuccessOnly(raised) == raised = "none"

\* lines 419-433: which outcomes of the try block remove the token
EvictsToken(raised) == raised # "PermissionError"

\* lines 423-433: the response for what the try block raised
DeletionReply(step, data) ==
    CASE step.raised = "PermissionError" -> Reply(403, "PermissionDenied", data.path)
      [] step.raised = "OSError"         -> Reply(500, "Failed", data.path)
      [] OTHER                           -> step.reply

TokenCheckMismatchFirst(token, table, t, data) ==
    IF token \notin DOMAIN table THEN "InvalidToken"
    ELSE IF ParametersDiffer(table[token].data, data) THEN "ParameterMismatch"
    ELSE IF t > table[token].expiry_time THEN "Expired"
    ELSE "ok"

TokenCheckNoExpiry(token, table, t, data) ==
    IF token \notin DOMAIN table THEN "InvalidToken"
    ELSE IF ParametersDiffer(table[token].data, data) THEN "ParameterMismatch"
    ELSE "ok"

TokenCheckUnknownAsExpired(token, table, t, data) ==
    IF token \notin DOMAIN table THEN "Expired"
    ELSE IF t > table[token].expiry_time THEN "Expired"
    ELSE IF ParametersDiffer(table[token].data, data) THEN "ParameterMismatch"
    ELSE "ok"

\* lines 379-392: the checks of step 2, in the order the handler makes them
TokenCheck(token, table, t, data) ==
    IF token \notin DOMAIN table THEN "InvalidToken"
    ELSE IF TokenExpired(t, table[token].expiry_time) THEN "Expired"
    ELSE IF ParametersDiffer(table[token].data, data) THEN "ParameterMismatch"
    ELSE "ok"

\* the call passes the checks of step 2 and enters the try block
ReachesDeletion(data) ==
    /\ data.confirmation_token # None
    /\ TokenCheck(data.confirmation_token, pending_confirmations, now, data) = "ok"

\* lines 345-433
delete_path(data, oserror, partial) ==
    LET np    == normalize_path(data.path, fs)
        token == data.confirmation_token
        check == TokenCheck(token, pending_confirmations, now, data)
    IN
    /\ request' = [op |-> "delete_path", data |-> data, oserror |-> oserror]
    /\ UNCHANGED <<now, guard, memory_file>>
    /\ IF ~np.ok
       THEN /\ response' = Reply(403, "AccessDenied", np)
            /\ UNCHANGED <<fs, pending_confirmations, uuidCount>>
       ELSE IF token = None
       THEN IF ~exists(fs, np.path)
            THEN /\ response' = Reply(404, "NotFound", data.path)
                 /\ UNCHANGED <<fs, pending_confirmations, uuidCount>>
            ELSE LET confirmation_token == uuidCount + 1
                     expiry_time == ExpiryTime(now)
                 IN  /\ uuidCount < MaxTokens
                     /\ uuidCount' = confirmation_token
                     /\ pending_confirmations' =
                            (confirmation_token :> [data |-> data, expiry_time |-> expiry_time])
                            @@ pending_confirmations
                     /\ response' = Reply(200, "ConfirmationRequired",
                                          [confirmation_token |-> confirmation_token,
                                           expires_at |-> expiry_time])
                     /\ UNCHANGED fs
       ELSE IF check = "InvalidToken"
       THEN /\ response' = Reply(400, "InvalidToken", token)
            /\ UNCHANGED <<fs, pending_confirmations, uuidCount>>
       ELSE IF check # "ok"
       THEN /\ pending_confirmations' = Del(pending_confirmations, token)
            /\ response' = Reply(400, check, token)
            /\ UNCHANGED <<fs, uuidCount>>
       ELSE LET step == DeletionStep(fs, np.path, data, oserror, partial)
            IN  /\ fs' = step.fs
                /\ pending_confirmations' =
                       IF EvictsToken(step.raised)
                       THEN Del(pending_confirmations, token)
                       ELSE pending_confirmations
                /\ response' = DeletionReply(step, data)
                /\ UNCHANGED uuidCount

\* ---------------------------------------------------------------- FileOps
\* what every handler but delete_path leaves alone
Respond(op, data, oserror, reply, f) ==
    /\ request' = [op |-> op, data |-> data, oserror |-> oserror]
    /\ response' = reply
    /\ fs' = f
    /\ UNCHANGED <<pending_confirmations, now, uuidCount, guard, inflight, memory_file>>

ParentIsDir(f, p) == p # <<>> /\ is_dir(f, Parent(p))

\* the prefixes of p, p itself included
Prefixes(p) == {SubSeq(p, 1, k) : k \in 0..Len(p)}

\* open() fails with ENOENT (FileNotFoundError): a component is missing below
\* a directory; below a file it fails with ENOTDIR, which is no FileNotFoundError
NotFound(f, p) ==
    /\ ~exists(f, p)
    /\ \A q \in Prefixes(p) : exists(f, q) => is_dir(f, q)

\* lines 170-184
read_file(data, oserror) ==
    LET np == normalize_path(data.path, fs)
    IN  IF ~np.ok THEN Respond("read_file", data, oserror, Reply(403, "AccessDenied", np), fs)
        ELSE IF NotFound(fs, np.path)
        THEN Respond("read_file", data, oserror, Reply(404, "NotFound", data.path), fs)
        ELSE IF oserror = "PermissionError"
        THEN Respond("read_file", data, oserror, Reply(403, "PermissionDenied", data.path), fs)
        ELSE IF ~is_file(fs, np.path) \/ oserror # "none"
        THEN Respond("read_file", data, oserror, Reply(500, "Failed", data.path), fs)
        ELSE Respond("read_file", data, oserror, Reply(200, "ReadFile", fs[np.path].content), fs)

\* Path.write_text: the file is created or truncated, its directory is not
WriteText(f, p, content) ==
    [q \in DOMAIN f \cup {p} |-> IF q = p THEN File(content) ELSE f[q]]

WritableWithoutParent(f, p) == exists(f, p) => is_file(f, p)

\* open(path, "w") succeeds
Writable(f, p) == ParentIsDir(f, p) /\ (exists(f, p) => is_file(f, p))

\* lines 188-199
write_file(data, oserror) ==
    LET np == normalize_path(data.path, fs)
    IN  IF ~np.ok THEN Respond("write_file", data, oserror, Reply(403, "AccessDenied", np), fs)
        ELSE IF oserror = "PermissionError"
        THEN Respond("write_file", data, oserror, Reply(403, "PermissionDenied", data.path), fs)
        ELSE IF ~Writable(fs, np.path) \/ oserror # "none"
        THEN Respond("write_file", data, oserror, Reply(500, "Failed", data.path), fs)
        ELSE Respond("write_file", data, oserror, Reply(200, "Wrote", data.path),
                     WriteText(fs, np.path, data.content))

\* oldText in modified
Contains(text, oldText) ==
    \E i \in 1..(Len(text) - Len(oldText) + 1) :
        SubSeq(text, i, i + Len(oldText) - 1) = oldText

ReplaceLast(text, oldText, newText) ==
    IF ~Contains(text, oldText) THEN text
    ELSE LET i == CHOOSE k \in 1..(Len(text) - Len(oldText) + 1) :
                     /\ SubSeq(text, k, k + Len(oldText) - 1) = oldText
                     /\ \A j \in (k + 1)..(Len(text) - Len(oldText) + 1) :
                           SubSeq(text, j, j + Len(oldText) - 1) # oldText
         IN  SubSeq(text, 1, i - 1) \o newText \o SubSeq(text, i + Len(oldText), Len(text))

\* modified.replace(oldText, newText, 1)
ReplaceFirst(text, oldText, newText) ==
    IF ~Contains(text, oldText) THEN text
    ELSE LET i == CHOOSE k \in 1..(Len(text) - Len(oldText) + 1) :
                     /\ SubSeq(text, k, k + Len(oldText) - 1) = oldText
                     /\ \A j \in 1..(k - 1) : SubSeq(text, j, j + Len(oldText) - 1) # oldText
         IN  SubSeq(text, 1, i - 1) \o newText \o SubSeq(text, i + Len(oldText), Len(text))

RECURSIVE ApplyEditsSkippingUnmatched(_, _)
ApplyEditsSkippingUnmatched(modified, edits) ==
    IF edits = <<>> THEN [ok |-> TRUE, modified |-> modified]
    ELSE ApplyEditsSkippingUnmatched(
             ReplaceFirst(modified, Head(edits).oldText, Head(edits).newText), Tail(edits))

\* lines 224-232: the loop over data.edits; it stops at the first edit whose
\* oldText is not in the content the edits before it produced
RECURSIVE ApplyEdits(_, _)
ApplyEdits(modified, edits) ==
    IF edits = <<>> THEN [ok |-> TRUE, modified |-> modified]
    ELSE IF ~Contains(modified, Head(edits).oldText)
    THEN [ok |-> FALSE, oldText |-> Head(edits).oldText]
    ELSE ApplyEdits(ReplaceFirst(modified, Head(edits).oldText, Head(edits).newText),
                    Tail(edits))

edit_file_ignoring_dryRun(data, oserror) ==
    LET np == normalize_path(data.path, fs)
    IN  IF ~np.ok THEN Respond("edit_file", data, oserror, Reply(403, "AccessDenied", np), fs)
        ELSE IF NotFound(fs, np.path)
        THEN Respond("edit_file", data, oserror, Reply(404, "NotFound", data.path), fs)
        ELSE IF oserror = "PermissionError on read"
        THEN Respond("edit_file", data, oserror, Reply(403, "PermissionDenied", data.path), fs)
        ELSE IF ~is_file(fs, np.path)
        THEN Respond("edit_file", data, oserror, Reply(500, "Failed", data.path), fs)
        ELSE LET original == fs[np.path].content
                 result   == ApplyEdits(original, data.edits)
             IN  IF ~result.ok
                 THEN Respond("edit_file", data, oserror,
                              Reply(500, "Failed", [status |-> 400, oldText |-> result.oldText]), fs)
                 ELSE IF oserror = "PermissionError"
                 THEN Respond("edit_file", data, oserror,
                              Reply(403, "PermissionDenied", data.path), fs)
                 ELSE IF oserror # "none"
                 THEN Respond("edit_file", data, oserror, Reply(500, "Failed", data.path), fs)
                 ELSE Respond("edit_file", data, oserror,
                              Reply(200, IF data.dryRun THEN "Diff" ELSE "Edited",
                                    [a |-> original, b |-> result.modified]),
                              WriteText(fs, np.path, result.modified))

\* lines 209-251.  The HTTPException(400) of line 228 is raised inside the
\* try block whose last clause is "except Exception": it leaves as a 500
edit_file(data, oserror) ==
    LET np == normalize_path(data.path, fs)
    IN  IF ~np.ok THEN Respond("edit_file", data, oserror, Reply(403, "AccessDenied", np), fs)
        ELSE IF NotFound(fs, np.path)
        THEN Respond("edit_file", data, oserror, Reply(404, "NotFound", data.path), fs)
        ELSE IF oserror = "PermissionError on read"
        THEN Respond("edit_file", data, oserror, Reply(403, "PermissionDenied", data.path), fs)
        ELSE IF ~is_file(fs, np.path)
        THEN Respond("edit_file", data, oserror, Reply(500, "Failed", data.path), fs)
        ELSE LET original == fs[np.path].content
                 result   == ApplyEdits(original, data.edits)
             IN  IF ~result.ok
                 THEN Respond("edit_file", data, oserror,
                              Reply(500, "Failed", [status |-> 400, oldText |-> result.oldText]), fs)
                 ELSE IF data.dryRun
                 THEN Respond("edit_file", data, oserror,
                              Reply(200, "Diff", [a |-> original, b |-> result.modified]), fs)
                 ELSE IF oserror = "PermissionError"
                 THEN Respond("edit_file", data, oserror,
                              Reply(403, "PermissionDenied", data.path), fs)
                 ELSE IF oserror # "none"
                 THEN Respond("edit_file", data, oserror, Reply(500, "Failed", data.path), fs)
                 ELSE Respond("edit_file", data, oserror, Reply(200, "Edited", data.path),
                              WriteText(fs, np.path, result.modified))

\* lines 257-268: mkdir(parents=True, exist_ok=True)
create_directory(data, oserror) ==
    LET np == normalize_path(data.path, fs)
    IN  IF ~np.ok
        THEN Respond("create_directory", data, oserror, Reply(403, "AccessDenied", np), fs)
        ELSE IF is_dir(fs, np.path)
        THEN Respond("create_directory", data, oserror, Reply(200, "Created", data.path), fs)
        ELSE IF oserror = "PermissionError"
        THEN Respond("create_directory", data, oserror,
                     Reply(403, "PermissionDenied", data.path), fs)
        ELSE IF oserror # "none" \/ \E q \in Prefixes(np.path) : exists(fs, q) /\ ~is_dir(fs, q)
        THEN Respond("create_directory", data, oserror, Reply(500, "Failed", data.path), fs)
        ELSE Respond("create_directory", data, oserror, Reply(200, "Created", data.path),
                     [q \in DOMAIN fs \cup Prefixes(np.path) |->
                         IF q \in DOMAIN fs THEN fs[q] ELSE Dir])

\* entry.is_dir(): symlinks are followed
IsDirEntry(f, q) == is_dir(f, RealPath(f, <<>>, q))

EntryType(f, q) == IF IsDirEntry(f, q) THEN "directory" ELSE "file"

\* lines 274-288
list_directory(data) ==
    LET np == normalize_path(data.path, fs)
    IN  IF ~np.ok
        THEN Respond("list_directory", data, "none", Reply(403, "AccessDenied", np), fs)
        ELSE IF ~is_dir(fs, np.path)
        THEN Respond("list_directory", data, "none", Reply(400, "NotADirectory", data.path), fs)
        ELSE Respond("list_directory", data, "none",
                     Reply(200, "Listing",
                           {[name |-> q[Len(q)], type |-> EntryType(fs, q)] :
                               q \in Children(fs, np.path)}), fs)

\* lines 460-502.  The HTTPException(404) of line 468 is raised inside the
\* try block whose last clause is "except Exception": it leaves as a 500
get_metadata(data, oserror) ==
    LET np == normalize_path(data.path, fs)
    IN  IF ~np.ok
        THEN Respond("get_metadata", data, oserror, Reply(403, "AccessDenied", np), fs)
        ELSE IF ~exists(fs, np.path)
        THEN Respond("get_metadata", data, oserror,
                     Reply(500, "Failed", [status |-> 404, path |-> data.path]), fs)
        ELSE IF oserror = "PermissionError"
        THEN Respond("get_metadata", data, oserror, Reply(403, "PermissionDenied", data.path), fs)
        ELSE IF oserror # "none"
        THEN Respond("get_metadata", data, oserror, Reply(500, "Failed", data.path), fs)
        ELSE Respond("get_metadata", data, oserror,
                     Reply(200, "Metadata",
                           [path |-> PathStr(np.path),
                            type |-> IF is_file(fs, np.path) THEN "file"
                                     ELSE IF is_dir(fs, np.path) THEN "directory"
                                     ELSE "other",
                            size_bytes |-> IF is_file(fs, np.path)
                                           THEN Len(fs[np.path].content) ELSE 0]), fs)

\* shutil.move(src, dst) on resolved paths: [ok, fs].  A directory that
\* exists at dst receives src under its own name; os.rename replaces a file
\* by a file and refuses the other cases, and the copy shutil falls back on
\* fails where the rename did
Rekey(f, src, dst) ==
    LET moved == {src} \cup Descendants(f, src)
        to(q) == dst \o SubSeq(q, Len(src) + 1, Len(q))
        kept  == DOMAIN f \ moved
    IN  [q \in kept \cup {to(m) : m \in moved} |->
            IF \E m \in moved : to(m) = q
            THEN f[CHOOSE m \in moved : to(m) = q]
            ELSE f[q]]

ShutilMove(f, src, dst) ==
    IF is_dir(f, dst) /\ src = dst THEN [ok |-> TRUE, fs |-> f]
    ELSE LET real_dst == IF is_dir(f, dst) THEN Append(dst, src[Len(src)]) ELSE dst
         IN  IF is_dir(f, dst) /\ exists(f, real_dst) THEN [ok |-> FALSE, fs |-> f]
             ELSE IF src = real_dst THEN [ok |-> TRUE, fs |-> f]
             ELSE IF ~ParentIsDir(f, real_dst) THEN [ok |-> FALSE, fs |-> f]
             ELSE IF is_dir(f, src) /\ (IsPrefix(src, real_dst) \/ exists(f, real_dst))
             THEN [ok |-> FALSE, fs |-> f]
             ELSE [ok |-> TRUE, fs |-> Rekey(f, src, real_dst)]

Pair(data) == <<data.source_path, data.destination_path>>

move_path_unchecked_destination(data, oserror) ==
    LET source      == normalize_path(data.source_path, fs)
        destination == [ok |-> TRUE, path |-> resolve(expanduser(data.destination_path), fs)]
    IN  IF ~source.ok
        THEN Respond("move_path", data, oserror, Reply(403, "AccessDenied", source), fs)
        ELSE IF ~exists(fs, source.path)
        THEN Respond("move_path", data, oserror,
                     Reply(500, "Failed", [status |-> 404, path |-> data.source_path]), fs)
        ELSE IF oserror = "PermissionError"
        THEN Respond("move_path", data, oserror, Reply(403, "PermissionDenied", Pair(data)), fs)
        ELSE LET moved == ShutilMove(fs, source.path, destination.path)
             IN  IF oserror # "none" \/ ~moved.ok
                 THEN Respond("move_path", data, oserror, Reply(500, "Failed", Pair(data)), fs)
                 ELSE Respond("move_path", data, oserror, Reply(200, "Moved", Pair(data)),
                              moved.fs)

\* lines 437-456.  The HTTPException(404) of line 448 is raised inside the
\* try block whose last clause is "except Exception": it leaves as a 500
move_path(data, oserror) ==
    LET source      == normalize_path(data.source_path, fs)
        destination == normalize_path(data.destination_path, fs)
    IN  IF ~source.ok
        THEN Respond("move_path", data, oserror, Reply(403, "AccessDenied", source), fs)
        ELSE IF ~destination.ok
        THEN Respond("move_path", data, oserror, Reply(403, "AccessDenied", destination), fs)
        ELSE IF ~exists(fs, source.path)
        THEN Respond("move_path", data, oserror,
                     Reply(500, "Failed", [status |-> 404, path |-> data.source_path]), fs)
        ELSE IF oserror = "PermissionError"
        THEN Respond("move_path", data, oserror, Reply(403, "PermissionDenied", Pair(data)), fs)
        ELSE LET moved == ShutilMove(fs, source.path, destination.path)
             IN  IF oserror # "none" \/ ~moved.ok
                 THEN Respond("move_path", data, oserror, Reply(500, "Failed", Pair(data)), fs)
                 ELSE Respond("move_path", data, oserror, Reply(200, "Moved", Pair(data)),
                              moved.fs)

\* Path.iterdir of a path as the walk names it: the entries of the directory
\* it resolves to, named below the path itself
IterDir(f, p) ==
    LET real == RealPath(f, <<>>, p)
    IN  {Append(p, q[Len(q)]) : q \in Children(f, real)}

\* lines 298-308: build_tree
RECURSIVE build_tree(_, _)
build_tree(f, current) ==
    {IF IsDirEntry(f, item)
     THEN [name |-> item[Len(item)], type |-> "directory", children |-> build_tree(f, item)]
     ELSE [name |-> item[Len(item)], type |-> "file"] :
        item \in IterDir(f, current)}

\* lines 292-310: iterdir on what is no directory raises past the handler
directory_tree(data) ==
    LET np == normalize_path(data.path, fs)
    IN  IF ~np.ok
        THEN Respond("directory_tree", data, "none", Reply(403, "AccessDenied", np), fs)
        ELSE IF ~is_dir(fs, np.path)
        THEN Respond("directory_tree", data, "none",
                     Reply(500, "InternalServerError", data.path), fs)
        ELSE Respond("directory_tree", data, "none",
                     Reply(200, "Tree", build_tree(fs, np.path)), fs)

\* fnmatch.fnmatchcase with the wildcards "*" and "?"
RECURSIVE FnMatch(_, _)
FnMatch(name, pat) ==
    IF pat = <<>> THEN name = <<>>
    ELSE IF Head(pat) = "*"
    THEN FnMatch(name, Tail(pat)) \/ (name # <<>> /\ FnMatch(Tail(name), pat))
    ELSE /\ name # <<>>
         /\ Head(pat) = "?" \/ Head(pat) = Head(name)
         /\ FnMatch(Tail(name), Tail(pat))

\* the parts of an absolute path as pathlib counts them: the root, then the names
Parts(p) == <<(<<"/">>)>> \o [i \in 1..Len(p) |-> Spell(p[i])]

\* PurePath.match: a relative pattern is matched from the right, an absolute
\* one against the whole path
PathMatch(p, pattern) ==
    LET pat   == IF Head(pattern) = "/"
                 THEN <<(<<"/">>)>> \o SplitSlash(pattern) ELSE SplitSlash(pattern)
        parts == Parts(p)
        n     == Len(pat)
        m     == Len(parts)
    IN  /\ IF Head(pattern) = "/" THEN n = m ELSE n <= m
        /\ \A i \in 1..n : FnMatch(parts[m - n + i], pat[i])

\* os.walk(base_path): the directories it visits; it lists symlinks to
\* directories among dirs and does not descend into them
WalkRoots(f, base) ==
    IF ~is_dir(f, base) THEN {}
    ELSE {base} \cup {q \in Descendants(f, base) : is_dir(f, q)}

\* line 334: any(str(result_path).startswith(alt) for alt in ALLOWED_DIRECTORIES)
Revalidated(result_path) ==
    \E i \in 1..Len(ALLOWED_DIRECTORIES) :
        StartsWith(PathStr(result_path), ALLOWED_DIRECTORIES[i])

\* lines 325-330: the visited directory matches an exclude pattern
Excluded(root, excludePatterns) ==
    \E i \in 1..Len(excludePatterns) : PathMatch(root, excludePatterns[i])

\* lines 321-335
SearchResults(f, base, pattern, excludePatterns) ==
    {result_path \in UNION {Children(f, root) :
                               root \in {r \in WalkRoots(f, base) :
                                            ~Excluded(r, excludePatterns)}} :
        /\ Contains(LowerStr(Spell(result_path[Len(result_path)])), LowerStr(pattern))
        /\ Revalidated(result_path)}

NoMatches == {<<"No matches found">>}

\* lines 314-337
search_files(data) ==
    LET np == normalize_path(data.path, fs)
    IN  IF ~np.ok
        THEN Respond("search_files", data, "none", Reply(403, "AccessDenied", np), fs)
        ELSE LET results == SearchResults(fs, np.path, data.pattern, data.excludePatterns)
             IN  Respond("search_files", data, "none",
                         Reply(200, "Matches",
                               IF results = {} THEN NoMatches
                               ELSE {PathStr(r) : r \in results}), fs)

\* the lines of a text, without their "\n"
RECURSIVE SplitLines(_)
SplitLines(s) ==
    IF s = <<>> THEN <<>>
    ELSE LET line == Before(s, "\n")
         IN  <<line>> \o SplitLines(SubSeq(s, Len(line) + 2, Len(s)))

\* str.strip() on texts whose only blank is " "
RECURSIVE Strip(_)
Strip(s) ==
    IF s = <<>> THEN s
    ELSE IF Head(s) = " " THEN Strip(Tail(s))
    ELSE IF s[Len(s)] = " " THEN Strip(SubSeq(s, 1, Len(s) - 1))
    ELSE s

\* base_path.rglob / glob (file_pattern a pattern for one name): rglob does
\* not descend through symlinks
GlobItems(f, base, file_pattern, recursive) ==
    {q \in IF recursive THEN Descendants(f, base) ELSE Children(f, base) :
        FnMatch(Spell(q[Len(q)]), file_pattern)}

\* item_path.is_file(): symlinks are followed
IsFileEntry(f, q) == is_file(f, RealPath(f, <<>>, q))

\* lines 506-538; unreadable are the files whose open() or read fails
search_content(data, unreadable) ==
    LET np == normalize_path(data.path, fs)
    IN  IF ~np.ok
        THEN Respond("search_content", data, unreadable, Reply(403, "AccessDenied", np), fs)
        ELSE IF ~is_dir(fs, np.path)
        THEN Respond("search_content", data, unreadable,
                     Reply(400, "NotADirectory", data.path), fs)
        ELSE LET items   == {q \in GlobItems(fs, np.path, data.file_pattern, data.recursive) :
                                IsFileEntry(fs, q) /\ q \notin unreadable}
                 lines(q) == SplitLines(fs[RealPath(fs, <<>>, q)].content)
                 results == UNION {
                     {[file_path |-> PathStr(q), line_number |-> n,
                       line_content |-> Strip(lines(q)[n])] :
                         n \in {k \in 1..Len(lines(q)) :
                                   Contains(LowerStr(lines(q)[k]),
                                            LowerStr(data.search_query))}} :
                     q \in items}
             IN  Respond("search_content", data, unreadable,
                         Reply(200, "Matches",
                               IF results = {} THEN NoMatches ELSE results), fs)

\* ---------------------------------------------------------------- requests
P_FILE == Abs(<<"data", "sub", "file.txt">>)
P_SUB == Abs(<<"data", "sub">>)
P_ESCAPE == Abs(<<"data", "..", "etc", "passwd">>)
P_FIFO == Abs(<<"data", "fifo">>)

DeletePaths == {P_FILE, P_SUB, P_ESCAPE, P_FIFO}

OSErrors == {"none", "PermissionError", "OSError"}

DeletePathRequests ==
    [path : DeletePaths, recursive : BOOLEAN,
     confirmation_token : {None} \cup (1..MaxTokens)]

\* the operating system's answer matters only to a call that gets as far as
\* unlink / rmtree / rmdir
DeletePath ==
    \E data \in DeletePathRequests :
        LET np      == normalize_path(data.path, fs)
            deletes == np.ok /\ ReachesDeletion(data) /\ exists(fs, np.path)
                       /\ fs[np.path].type \in {"file", "dir"}
        IN  \E oserror \in IF deletes THEN OSErrors ELSE {"none"} :
              \E partial \in IF deletes /\ oserror # "none" /\ is_dir(fs, np.path)
                                /\ data.recursive
                             THEN PartialRemovals(fs, np.path) ELSE {{}} :
                delete_path(data, oserror, partial) /\ UNCHANGED inflight

P_NEW == Abs(<<"data", "new">>)

FileErrors == {"none", "PermissionError"}

ReadFile ==
    \E data \in [path : {P_FILE, P_SUB, P_ESCAPE}], oserror \in FileErrors :
        read_file(data, oserror)

WriteFile ==
    \E data \in [path : {P_FILE, P_SUB, P_ESCAPE}, content : {<<"b">>}],
       oserror \in FileErrors :
        write_file(data, oserror)

Edit(oldText, newText) == [oldText |-> oldText, newText |-> newText]

EditLists ==
    { <<Edit(<<"a">>, <<"b">>)>>,
      <<Edit(<<"a">>, <<"b">>), Edit(<<"a", "a">>, <<>>)>> }

EditFile ==
    \E data \in [path : {P_FILE, P_ESCAPE}, edits : EditLists, dryRun : BOOLEAN] :
        edit_file(data, "none")

CreateDirectory ==
    \E data \in [path : {P_NEW, P_FILE, P_ESCAPE}] : create_directory(data, "none")

ListDirectory ==
    \E data \in [path : {P_SUB, P_FILE, P_ESCAPE}] : list_directory(data)

DirectoryTree ==
    \E data \in [path : {P_SUB, P_FILE, P_ESCAPE}] : directory_tree(data)

SearchFiles ==
    \E data \in [path : {P_SUB, P_ESCAPE}, pattern : {<<"f", "i", "l", "e">>},
                 excludePatterns : {<<>>, << <<"*", "/", "s", "u", "b">> >>}] :
        search_files(data)

SearchContent ==
    \E data \in [path : {P_SUB, P_ESCAPE}, search_query : {<<"b">>},
                 recursive : BOOLEAN, file_pattern : {<<"*">>}] :
        search_content(data, {})

MovePath ==
    \E data \in [source_path : {P_FILE, P_ESCAPE}, destination_path : {P_NEW, P_ESCAPE}] :
        move_path(data, "none")

GetMetadata ==
    \E data \in [path : {P_FILE, P_ESCAPE}] : get_metadata(data, "none")

\* delete_path beside the other operations: one token
OpsDeletePath ==
    \E data \in [path : {P_FILE, P_SUB, P_ESCAPE}, recursive : BOOLEAN,
                 confirmation_token : {None, 1}] :
        /\ data.confirmation_token = None => uuidCount < MaxOpsTokens
        /\ delete_path(data, "none", {})
        /\ UNCHANGED inflight

TickPurgingExpired ==
    /\ now < MaxTime
    /\ now' = now + 1
    /\ pending_confirmations' =
           [t \in {u \in DOMAIN pending_confirmations :
                      pending_confirmations[u].expiry_time >= now + 1} |->
               pending_confirmations[t]]
    /\ UNCHANGED <<fs, uuidCount, request, response, guard, inflight, memory_file>>

\* the wall clock moves on between requests
Tick ==
    /\ now < MaxTime
    /\ now' = now + 1
    /\ UNCHANGED <<fs, pending_confirmations, uuidCount, request, response, guard, inflight, memory_file>>

Init ==
    /\ fs = InitFS
    /\ pending_confirmations = <<>>
    /\ now = 0
    /\ uuidCount = 0
    /\ request = [op |-> "none"]
    /\ response = Reply(0, "none", 0)
    /\ guard = [stage |-> "idle"]
    /\ inflight = <<>>
    /\ memory_file = NoMemoryFile

\* ---------------------------------------------------------------- the path guard alone
GuardSegs == {"data", "data2", "DATA", "etc", "passwd", "sub", "link", "link2", ".."}

MaxSegs == 3

GuardInputs ==
    {[anchor |-> a, segs |-> s] :
        a \in {"abs", "home", "rel"},
        s \in UNION {[1..n -> GuardSegs] : n \in 0..MaxSegs}}

\* the trees normalize_path is asked about: without symlink, with a symlink
\* out of the root, and with a chain of two
GuardTrees ==
    { Remove(InitFS, {<<"data", "link">>}),
      InitFS,
      (<<"data", "link2">> :> Link(<<"data", "link">>)) @@ InitFS,
      (<<"data", "link2">> :> Link(<<"data", "sub">>)) @@ InitFS }

GuardInit ==
    /\ fs \in GuardTrees
    /\ pending_confirmations = <<>>
    /\ now = 0
    /\ uuidCount = 0
    /\ request = [op |-> "none"]
    /\ response = Reply(0, "none", 0)
    /\ \E p \in GuardInputs : guard = [stage |-> "input", input |-> p]
    /\ inflight = <<>>
    /\ memory_file = NoMemoryFile

\* normalize_path(p)
Normalize ==
    /\ guard.stage = "input"
    /\ guard' = [stage |-> "normalized", input |-> guard.input,
                 first |-> normalize_path(guard.input, fs)]
    /\ UNCHANGED <<fs, pending_confirmations, now, uuidCount, request, response, inflight, memory_file>>

\* normalize_path(str(normalize_path(p)))
Renormalize ==
    /\ guard.stage = "normalized"
    /\ guard.first.ok
    /\ guard' = [stage |-> "renormalized", input |-> guard.input, first |-> guard.first,
                 second |-> normalize_path(Abs(ParsePath(PathStr(guard.first.path))), fs)]
    /\ UNCHANGED <<fs, pending_confirmations, now, uuidCount, request, response, inflight, memory_file>>

GuardNext == Normalize \/ Renormalize

SpecGuard == GuardInit /\ [][GuardNext]_vars

\* ---------------------------------------------------------------- search_files alone
\* /data with a.log and tmp/b.log, and the same with tmp/x/b.log below
SearchTrees ==
    LET shallow == (<<"data", "a.log">> :> File(<<"a">>))
                   @@ (<<"data", "tmp">> :> Dir)
                   @@ (<<"data", "tmp", "b.log">> :> File(<<"b">>))
                   @@ InitFS
    IN  { shallow,
          (<<"data", "tmp", "x">> :> Dir)
          @@ (<<"data", "tmp", "x", "b.log">> :> File(<<"b">>))
          @@ shallow }

SearchFilesRequests ==
    [path : {Abs(<<"data">>), Abs(<<"data", "tmp">>), P_ESCAPE},
     pattern : {<<"l", "o", "g">>, <<"b">>, <<"x">>, <<"a">>, <<"t", "m", "p">>},
     excludePatterns : {<<>>,
                        << <<"*", "/", "t", "m", "p", "*">> >>,
                        << <<"t", "m", "p">> >>,
                        << <<"x">> >>,
                        << <<"*", "/", "t", "m", "p", "*">>, <<"x">> >>}]

SearchInit ==
    /\ fs \in SearchTrees
    /\ pending_confirmations = <<>>
    /\ now = 0
    /\ uuidCount = 0
    /\ request = [op |-> "none"]
    /\ response = Reply(0, "none", 0)
    /\ guard = [stage |-> "idle"]
    /\ inflight = <<>>
    /\ memory_file = NoMemoryFile

SearchCall == \E data \in SearchFilesRequests : search_files(data)

SpecSearch == SearchInit /\ [][SearchCall]_vars

\* ---------------------------------------------------------------- edit_file alone
MaxLen == 3

MaxEdits == 2

\* the texts of at most n characters over "a" and "b"
Texts(n) == UNION {[1..k -> {"a", "b"}] : k \in 0..n}

OldTexts == {<<>>, <<"a">>, <<"b">>, <<"a", "a">>}

NewTexts == {<<>>, <<"b">>, <<"a", "a">>}

EditOperations == {Edit(oldText, newText) : oldText \in OldTexts, newText \in NewTexts}

EditFileRequests ==
    [path : {P_FILE, P_NEW},
     edits : UNION {[1..n -> EditOperations] : n \in 0..MaxEdits},
     dryRun : BOOLEAN]

EditErrors == {"none", "PermissionError on read", "PermissionError", "OSError"}

\* the file to edit holds any text
EditInit ==
    /\ \E content \in Texts(MaxLen) :
          fs = WriteText(InitFS, <<"data", "sub", "file.txt">>, content)
    /\ pending_confirmations = <<>>
    /\ now = 0
    /\ uuidCount = 0
    /\ request = [op |-> "none"]
    /\ response = Reply(0, "none", 0)
    /\ guard = [stage |-> "idle"]
    /\ inflight = <<>>
    /\ memory_file = NoMemoryFile

\* one edit_file call on that file
EditCall ==
    /\ request.op = "none"
    /\ \E data \in EditFileRequests, oserror \in EditErrors : edit_file(data, oserror)

SpecEdit == EditInit /\ [][EditCall]_vars

\* ---------------------------------------------------------------- concurrent delete_path requests
MaxRequests == 2

MaxConcTokens == 1

ConcRequests ==
    [path : {P_FILE, P_SUB}, recursive : BOOLEAN, confirmation_token : 1..MaxConcTokens]

ConcInit ==
    /\ fs = InitFS
    /\ pending_confirmations = <<>>
    /\ now = 0
    /\ uuidCount = 0
    /\ request = [op |-> "none"]
    /\ response = Reply(0, "none", 0)
    /\ guard = [stage |-> "idle"]
    /\ inflight = [i \in 1..MaxRequests |-> [state |-> "idle"]]
    /\ memory_file = NoMemoryFile

\* a token-less call, handled at once
ConcIssue ==
    \E data \in [path : {P_FILE, P_SUB}, recursive : BOOLEAN, confirmation_token : {None}] :
        /\ uuidCount < MaxConcTokens
        /\ delete_path(data, "none", {})
        /\ UNCHANGED inflight

\* a request presenting a token reaches the server and waits for the event loop
Arrive(i) ==
    /\ inflight[i].state = "idle"
    /\ \E data \in ConcRequests :
          inflight' = [inflight EXCEPT ![i] = [state |-> "received", data |-> data]]
    /\ UNCHANGED <<fs, pending_confirmations, now, uuidCount, request, response, guard,
                   memory_file>>

\* the event loop runs the handler of a waiting request: delete_path has no
\* await, so it runs from line 356 to its return or raise without another
\* handler in between
Handle(i) ==
    /\ inflight[i].state = "received"
    /\ LET data    == inflight[i].data
           np      == normalize_path(data.path, fs)
           passes  == np.ok /\ ReachesDeletion(data)
           deletes == passes /\ exists(fs, np.path) /\ fs[np.path].type \in {"file", "dir"}
       IN  \E oserror \in IF deletes THEN OSErrors ELSE {"none"} :
             \E partial \in IF deletes /\ oserror # "none" /\ is_dir(fs, np.path)
                               /\ data.recursive
                            THEN PartialRemovals(fs, np.path) ELSE {{}} :
               /\ delete_path(data, oserror, partial)
               /\ inflight' =
                     [inflight EXCEPT ![i] =
                         [state |-> "answered", data |-> data,
                          status |-> response'.status, kind |-> response'.kind,
                          passed |-> passes, deleted |-> fs' # fs,
                          concurrent |-> {j \in 1..MaxRequests \ {i} :
                                             inflight[j].state = "received"}]]

ConcNext == ConcIssue \/ (\E i \in 1..MaxRequests : Arrive(i) \/ Handle(i)) \/ Tick

SpecConc == ConcInit /\ [][ConcNext]_vars

\* ---------------------------------------------------------------- one file under several spellings
\* /data/sub/file.txt, also with a redundant "." and relative to the working
\* directory
P_FILE_DOT == Abs(<<"data", ".", "sub", "file.txt">>)
P_FILE_REL == Rel(<<"sub", "file.txt">>)

SpelledDeletePath ==
    \E data \in [path : {P_FILE, P_FILE_DOT, P_FILE_REL}, recursive : BOOLEAN,
                 confirmation_token : {None} \cup (1..MaxTokens)] :
        /\ delete_path(data, "none", {})
        /\ UNCHANGED inflight

SpecSpell == Init /\ [][SpelledDeletePath]_vars

\* ---------------------------------------------------------------- the read-side operations alone
\* the tree with its symlink out of the root, the same with a file below
\* /DATA, and the tree without the symlink
ReadTrees ==
    { InitFS,
      (<<"DATA", "a.log">> :> File(<<"a">>)) @@ InitFS,
      Remove(InitFS, {<<"data", "link">>}) }

ReadPaths == {Abs(<<"data">>), P_SUB, Abs(<<"DATA">>), Abs(<<"data", "link">>)}

ReadInit ==
    /\ fs \in ReadTrees
    /\ pending_confirmations = <<>>
    /\ now = 0
    /\ uuidCount = 0
    /\ request = [op |-> "none"]
    /\ response = Reply(0, "none", 0)
    /\ guard = [stage |-> "idle"]
    /\ inflight = <<>>
    /\ memory_file = NoMemoryFile

ReadListDirectory == \E data \in [path : ReadPaths] : list_directory(data)

ReadDirectoryTree == \E data \in [path : ReadPaths] : directory_tree(data)

ReadSearchFiles ==
    \E data \in [path : ReadPaths,
                 pattern : {<<"l", "o", "g">>, <<"p", "a", "s", "s">>,
                            <<"l", "i", "n", "k">>, <<"f">>},
                 excludePatterns : {<<>>}] :
        search_files(data)

ReadSearchContent ==
    \E data \in [path : ReadPaths, search_query : {<<"a">>, <<"b">>},
                 recursive : BOOLEAN, file_pattern : {<<"*">>}] :
        search_content(data, {})

ReadNext == ReadListDirectory \/ ReadDirectoryTree \/ ReadSearchFiles \/ ReadSearchContent

SpecRead == ReadInit /\ [][ReadNext]_vars

Next == DeletePath \/ Tick

OpsNext ==
    \/ ReadFile \/ WriteFile \/ EditFile \/ CreateDirectory \/ ListDirectory
    \/ DirectoryTree \/ SearchFiles \/ SearchContent \/ MovePath \/ GetMetadata
    \/ OpsDeletePath

SpecOps == Init /\ [][OpsNext]_vars

\* every handler with the clock running: delete_path as in OpsDeletePath, and
\* one call of each other handler on /data/sub/file.txt or its directory
LifeNext ==
    \/ OpsDeletePath
    \/ Tick
    \/ read_file([path |-> P_FILE], "none")
    \/ write_file([path |-> P_FILE, content |-> <<"b">>], "none")
    \/ edit_file([path |-> P_FILE, edits |-> <<Edit(<<"a">>, <<"b">>)>>,
                  dryRun |-> FALSE], "none")
    \/ create_directory([path |-> P_NEW], "none")
    \/ list_directory([path |-> P_SUB])
    \/ directory_tree([path |-> P_SUB])
    \/ search_files([path |-> P_SUB, pattern |-> <<"f", "i", "l", "e">>,
                     excludePatterns |-> <<>>])
    \/ search_content([path |-> P_SUB, search_query |-> <<"b">>,
                       recursive |-> TRUE, file_pattern |-> <<"*">>], {})
    \/ move_path([source_path |-> P_FILE, destination_path |-> P_NEW], "none")
    \/ get_metadata([path |-> P_FILE], "none")

SpecLife == Init /\ [][LifeNext]_vars

Spec == Init /\ [][Next]_vars

\* ---------------------------------------------------------------- properties
\* a step that is a delete_path call (the clock stands still during a call)
DeleteCall == request'.op = "delete_path" /\ now' = now

\* the path of the call passes normalize_path: what the confirmation logic
\* is entered with
Guarded(data) == normalize_path(data.path, fs).ok

Known(t) == t \in DOMAIN pending_confirmations

\* the entry of token t matches the call: issued for its path string and
\* recursive flag, and not past its expiry
Matches(t, data) ==
    /\ pending_confirmations[t].data.path = data.path
    /\ pending_confirmations[t].data.recursive = data.recursive
    /\ now <= pending_confirmations[t].expiry_time

Deleted == {"DeletedFile", "DeletedRecursively", "DeletedEmptyDirectory"}

\* a token that has left the table never comes back
NeverReinstated(t) ==
    (t <= uuidCount /\ ~Known(t)) => t \notin DOMAIN pending_confirmations'

\* a guarded call presenting a token that is not in the table is answered
\* InvalidToken
UnknownIsInvalid(t) ==
    (DeleteCall /\ request'.data.confirmation_token = t /\ Guarded(request'.data) /\ ~Known(t))
        => response' = Reply(400, "InvalidToken", t)

\* C1: a delete_path call changes the filesystem only if it presents a token
\* that is in the table, was stored by a token-less call for the same path
\* string and recursive flag, and is not past its expiry; a call without a
\* token changes nothing in the filesystem
C1_DeletionNeedsIssuedToken ==
    [][DeleteCall =>
        LET data == request'.data
            t    == data.confirmation_token
        IN  /\ t = None => fs' = fs
            /\ fs' # fs =>
                  /\ t # None
                  /\ Known(t)
                  /\ pending_confirmations[t].data.confirmation_token = None
                  /\ Matches(t, data)
                  /\ DOMAIN fs' \subseteq DOMAIN fs
                  /\ DOMAIN fs' # DOMAIN fs]_vars

C1_Witness ==
    /\ request.op = "delete_path"
    /\ response.kind = "DeletedFile"
    /\ <<"data", "sub", "file.txt">> \notin DOMAIN fs

\* C2: a guarded call presenting a known, unexpired, matching token removes
\* the token on every outcome but PermissionDenied; a removed token stays
\* removed, a later guarded call presenting it is answered InvalidToken, and
\* every successful deletion consumes the token it presents
C2_TokenSingleUse ==
    [][\A t \in 1..MaxTokens :
        LET data == request'.data
        IN  /\ (/\ DeleteCall /\ data.confirmation_token = t /\ Guarded(data)
                /\ Known(t) /\ Matches(t, data)
                /\ response'.kind # "PermissionDenied")
                  => /\ t \notin DOMAIN pending_confirmations'
                     /\ response'.kind \in Deleted \cup {"NotFound", "DirectoryNotEmpty",
                                                         "NotFileOrDirectory", "Failed"}
                     /\ \A u \in DOMAIN pending_confirmations \ {t} :
                            /\ u \in DOMAIN pending_confirmations'
                            /\ pending_confirmations'[u] = pending_confirmations[u]
            /\ (DeleteCall /\ data.confirmation_token = t /\ response'.kind \in Deleted)
                  => Known(t) /\ t \notin DOMAIN pending_confirmations'
            /\ NeverReinstated(t)
            /\ UnknownIsInvalid(t)]_vars

C2_Witness ==
    /\ request.op = "delete_path"
    /\ request.data.confirmation_token # None
    /\ response.kind = "NotFound"
    /\ request.data.confirmation_token \notin DOMAIN pending_confirmations

\* C3: whenever unlink, rmtree or rmdir of a confirmed call fails with a
\* permission error, the call is answered 403 PermissionDenied and the token
\* stays in the table with its entry unchanged
C3_PermissionErrorKeepsToken ==
    [][(DeleteCall /\ request'.oserror = "PermissionError")
        => LET t == request'.data.confirmation_token
           IN  /\ response' = Reply(403, "PermissionDenied", request'.data.path)
               /\ t \in DOMAIN pending_confirmations'
               /\ pending_confirmations'[t] = pending_confirmations[t]]_vars

\* C4: a guarded call presenting a known, unexpired token with another path
\* or recursive flag than the stored one is answered 400 ParameterMismatch,
\* leaves the filesystem alone and removes the token, which stays removed, so
\* a following call with the original parameters is answered InvalidToken
C4_MismatchEvicts ==
    [][\A t \in 1..MaxTokens :
        LET data == request'.data
        IN  /\ (/\ DeleteCall /\ data.confirmation_token = t /\ Guarded(data) /\ Known(t)
                /\ now <= pending_confirmations[t].expiry_time
                /\ \/ pending_confirmations[t].data.path # data.path
                   \/ pending_confirmations[t].data.recursive # data.recursive)
                  => /\ response' = Reply(400, "ParameterMismatch", t)
                     /\ fs' = fs
                     /\ t \notin DOMAIN pending_confirmations'
            /\ NeverReinstated(t)
            /\ UnknownIsInvalid(t)]_vars

C4_Witness ==
    /\ request.op = "delete_path"
    /\ response.kind = "ParameterMismatch"
    /\ request.data.confirmation_token \notin DOMAIN pending_confirmations
    /\ fs = InitFS

\* C5: a token issued at time t carries the expiry t + 2; a guarded call
\* presenting a token of the table is answered 400 Expired exactly when the
\* time is greater than the expiry, and then nothing is deleted and the token
\* is removed for good, later calls with it being answered InvalidToken
C5_ExpiryIsTwoMinutes ==
    [][\A t \in 1..MaxTokens :
        LET data == request'.data
        IN  /\ (DeleteCall /\ response'.kind = "ConfirmationRequired"
                /\ response'.body.confirmation_token = t)
                  => /\ response'.body.expires_at = now + 2
                     /\ pending_confirmations'[t].expiry_time = now + 2
            /\ (DeleteCall /\ data.confirmation_token = t /\ Guarded(data) /\ Known(t))
                  => /\ response'.kind = "Expired" <=> now > pending_confirmations[t].expiry_time
                     /\ response'.kind = "Expired"
                           => /\ response'.status = 400
                              /\ fs' = fs
                              /\ t \notin DOMAIN pending_confirmations'
            /\ NeverReinstated(t)
            /\ UnknownIsInvalid(t)]_vars

C5_Witness ==
    /\ request.op = "delete_path"
    /\ response.kind = "Expired"
    /\ now = 3
    /\ request.data.confirmation_token \notin DOMAIN pending_confirmations

\* C6: a guarded call without a token on a path that does not exist is
\* answered 404 NotFound and adds no entry; on a path that exists it adds one
\* entry under a new token, holding the path string, the recursive flag and
\* the expiry, returns that token and expiry, and changes neither the
\* filesystem nor the other entries
C6_RequestIssuesOneToken ==
    [][(DeleteCall /\ request'.data.confirmation_token = None /\ Guarded(request'.data))
        => LET data == request'.data
               path == normalize_path(data.path, fs).path
           IN  /\ fs' = fs
               /\ path \notin DOMAIN fs
                     => /\ response' = Reply(404, "NotFound", data.path)
                        /\ pending_confirmations' = pending_confirmations
               /\ path \in DOMAIN fs
                     => \E t \in 1..MaxTokens :
                           /\ ~Known(t)
                           /\ DOMAIN pending_confirmations' = DOMAIN pending_confirmations \cup {t}
                           /\ pending_confirmations'[t].data.path = data.path
                           /\ pending_confirmations'[t].data.recursive = data.recursive
                           /\ response'.status = 200
                           /\ response'.body = [confirmation_token |-> t,
                                                expires_at |-> pending_confirmations'[t].expiry_time]
                           /\ \A u \in DOMAIN pending_confirmations :
                                 pending_confirmations'[u] = pending_confirmations[u]]_vars

C6_Witness ==
    /\ request.op = "delete_path"
    /\ response.kind = "ConfirmationRequired"
    /\ Cardinality(DOMAIN pending_confirmations) = 2

\* C7: a guarded call presenting a token that is not in the table (never
\* issued, consumed or evicted) is answered 400 InvalidToken and changes
\* neither the filesystem nor the table
C7_UnknownTokenIsInvalid ==
    [][\A t \in 1..MaxTokens :
        (DeleteCall /\ request'.data.confirmation_token = t /\ Guarded(request'.data)
         /\ ~Known(t))
            => /\ response' = Reply(400, "InvalidToken", t)
               /\ fs' = fs
               /\ pending_confirmations' = pending_confirmations]_vars

C7_Witness ==
    /\ request.op = "delete_path"
    /\ response.kind = "InvalidToken"
    /\ response.body <= uuidCount

\* the canonical form of a requested path: home-expanded, absolute, ".." and
\* symlinks resolved
Canonical(p) == resolve(expanduser(p), fs)

\* p is an allowed root or lies below one, segment by segment
InsideAllowedRoot(p) ==
    \E i \in 1..Len(ALLOWED_DIRECTORIES) : IsPrefix(ParsePath(ALLOWED_DIRECTORIES[i]), p)

\* C8: normalize_path accepts a requested path exactly when its canonical
\* form is an allowed root or lies inside one, compared segment by segment
C8_AcceptsExactlyInsideRoots ==
    guard.stage \in {"normalized", "renormalized"}
        => (guard.first.ok <=> InsideAllowedRoot(Canonical(guard.input)))

\* the path-taking operations and the path arguments of a request, in the
\* order the handler normalizes them
PathOps ==
    {"read_file", "write_file", "edit_file", "create_directory", "list_directory",
     "directory_tree", "search_files", "search_content", "delete_path", "move_path",
     "get_metadata"}

PathArgs(req) ==
    IF req.op = "move_path" THEN <<req.data.source_path, req.data.destination_path>>
    ELSE <<req.data.path>>

\* C9: a call of a path-taking operation one of whose path arguments
\* normalize_path rejects is answered 403 AccessDenied, carrying the rejected
\* (resolved) path of the first such argument and the allowed roots, and
\* leaves the filesystem and the table unchanged
C9_RejectedPathChangesNothing ==
    [][(request'.op \in PathOps /\ now' = now)
        => LET args     == PathArgs(request')
               rejected == {i \in 1..Len(args) : ~normalize_path(args[i], fs).ok}
           IN  rejected # {}
                 => LET k == CHOOSE i \in rejected : \A j \in rejected : i <= j
                    IN  /\ response'.status = 403
                        /\ response'.kind = "AccessDenied"
                        /\ response'.body.requested_path = PathStr(Canonical(args[k]))
                        /\ response'.body.allowed_directories = ALLOWED_DIRECTORIES
                        /\ fs' = fs
                        /\ pending_confirmations' = pending_confirmations]_vars

C9_Witness ==
    /\ request.op = "move_path"
    /\ request.data.source_path = P_FILE
    /\ request.data.destination_path = P_ESCAPE
    /\ response.kind = "AccessDenied"
    /\ response.body.requested_path = <<"/", "e", "t", "c", "/", "p", "a", "s", "s", "w", "d">>
    /\ pending_confirmations # <<>>

\* C10: for every path normalize_path accepts, normalize_path of the string
\* form of the result succeeds and returns the same path
C10_NormalizeIdempotent ==
    guard.stage = "renormalized"
        => guard.second.ok /\ guard.second.path = guard.first.path

C10_Witness ==
    /\ guard.stage = "renormalized"
    /\ guard.input = Abs(<<"data", "link2", "..">>)
    /\ guard.first.path = <<"data">>
    /\ guard.second.path = <<"data">>

\* ---------------------------------------------------------------- edit_file properties
\* the call reads the file it is to edit: its path is accepted, names a
\* regular file, and read_text does not fail
EditReads(data, oserror) ==
    /\ Guarded(data)
    /\ is_file(fs, normalize_path(data.path, fs).path)
    /\ oserror # "PermissionError on read"

\* the text of the file the call names
TextOf(f, data) == f[normalize_path(data.path, fs).path].content

\* text with exactly its first occurrence of oldText replaced by newText:
\* the one result, or nothing when oldText does not occur
ReplacedOnce(text, oldText, newText) ==
    {SubSeq(text, 1, i - 1) \o newText \o SubSeq(text, i + Len(oldText), Len(text)) :
        i \in {k \in 1..(Len(text) - Len(oldText) + 1) :
                  /\ SubSeq(text, k, k + Len(oldText) - 1) = oldText
                  /\ \A j \in 1..(k - 1) : SubSeq(text, j, j + Len(oldText) - 1) # oldText}}

\* the left fold of the edits over text, each edit applied to the text the
\* edits before it produced; empty when some edit finds no match
RECURSIVE Folds(_, _)
Folds(text, edits) ==
    IF edits = <<>> THEN {text}
    ELSE UNION {Folds(t, Tail(edits)) :
                   t \in ReplacedOnce(text, Head(edits).oldText, Head(edits).newText)}

\* the oldText of the first edit that finds no match
RECURSIVE FirstUnmatched(_, _)
FirstUnmatched(text, edits) ==
    LET once == ReplacedOnce(text, Head(edits).oldText, Head(edits).newText)
    IN  IF once = {} THEN Head(edits).oldText
        ELSE FirstUnmatched(CHOOSE t \in once : TRUE, Tail(edits))

\* C11: an edit_file call with dryRun = true leaves the filesystem, and so the
\* file's content, as it was, whether the edits all match or not
C11_DryRunNeverMutates ==
    [][(request'.op = "edit_file" /\ request'.data.dryRun) => fs' = fs]_vars

C11_Witness ==
    /\ request.op = "edit_file"
    /\ request.data.dryRun
    /\ response.kind = "Diff"
    /\ response.body.a # response.body.b
    /\ fs[<<"data", "sub", "file.txt">>].content = response.body.a

\* C12: an edit_file call that reads its file and has an edit whose oldText
\* is not in the text the preceding edits produced fails, and leaves the
\* filesystem, and so the file's content, as it was
C12_EditFailsAtomically ==
    [][(/\ request'.op = "edit_file"
        /\ EditReads(request'.data, request'.oserror)
        /\ Folds(TextOf(fs, request'.data), request'.data.edits) = {})
          => response'.status >= 400 /\ fs' = fs]_vars

C12_Witness ==
    /\ request.op = "edit_file"
    /\ request.data.path = P_FILE
    /\ ~request.data.dryRun
    /\ request.oserror = "none"
    /\ response.kind = "Failed"
    /\ Len(request.data.edits) = 2
    /\ request.data.edits[1] = Edit(<<"a">>, <<"b">>)
    /\ Contains(fs[<<"data", "sub", "file.txt">>].content, <<"a">>)

\* C13: an edit_file call that reads its file and has an unmatched edit is
\* answered with status 400, naming the first unmatched oldText
C13_MismatchIs400 ==
    [][(/\ request'.op = "edit_file"
        /\ EditReads(request'.data, request'.oserror)
        /\ Folds(TextOf(fs, request'.data), request'.data.edits) = {})
          => /\ response'.status = 400
             /\ response'.body.oldText =
                    FirstUnmatched(TextOf(fs, request'.data), request'.data.edits)]_vars

\* C14: after a successful edit_file the file holds the left fold of the edit
\* list over the original text, each step replacing exactly the first
\* occurrence of oldText in the current text by newText
C14_ResultIsLeftFold ==
    [][(request'.op = "edit_file" /\ response'.kind = "Edited")
        => /\ EditReads(request'.data, request'.oserror)
           /\ TextOf(fs', request'.data)
                  \in Folds(TextOf(fs, request'.data), request'.data.edits)]_vars

C14_Witness ==
    /\ request.op = "edit_file"
    /\ response.kind = "Edited"
    /\ request.data.edits = <<Edit(<<"a">>, <<"a", "a">>), Edit(<<"a", "a">>, <<>>)>>
    /\ fs[<<"data", "sub", "file.txt">>].content = <<>>

\* ---------------------------------------------------------------- search_files properties
\* the directories at or below the base directory of a search
SearchedDirs(data) ==
    LET base == normalize_path(data.path, fs).path
    IN  {d \in {base} \cup Descendants(fs, base) : is_dir(fs, d)}

\* C15: in search_files nothing located at any depth below a directory that
\* matches an exclude glob appears in the returned matches
C15_ExcludedSubtreeSkipped ==
    [][(request'.op = "search_files" /\ response'.kind = "Matches")
        => \A d \in SearchedDirs(request'.data) :
              Excluded(d, request'.data.excludePatterns)
                => \A q \in Descendants(fs, d) : PathStr(q) \notin response'.body]_vars

\* ---------------------------------------------------------------- deletion properties
\* a delete_path call whose path is accepted and whose token passes the
\* checks of step 2, on a directory
ConfirmedOnDirectory(data) ==
    /\ DeleteCall
    /\ Guarded(data)
    /\ Known(data.confirmation_token)
    /\ is_dir(fs, normalize_path(data.path, fs).path)

\* C16: a confirmed delete_path with recursive = false on a directory that
\* has something in it is answered 400 DirectoryNotEmpty and leaves the
\* filesystem, the directory and all below it included, as it was
C16_NonEmptyDirectoryStays ==
    [][LET data == request'.data
           path == normalize_path(data.path, fs).path
       IN  (/\ ConfirmedOnDirectory(data)
            /\ Matches(data.confirmation_token, data)
            /\ ~data.recursive
            /\ Descendants(fs, path) # {})
              => /\ response' = Reply(400, "DirectoryNotEmpty", data.path)
                 /\ fs' = fs]_vars

C16_Witness ==
    /\ request.op = "delete_path"
    /\ request.data.path = P_SUB
    /\ request.oserror = "none"
    /\ response.kind = "DirectoryNotEmpty"
    /\ <<"data", "sub", "file.txt">> \in DOMAIN fs

\* C17: a delete_path call with recursive = true on an existing directory,
\* presenting an unexpired token of that path: when the token was issued with
\* recursive = true and the operating system raises nothing, the call succeeds,
\* the directory and everything below it are gone and nothing else is touched;
\* when it was issued with recursive = false, the call is refused as
\* ParameterMismatch and nothing is deleted
C17_RecursiveDeleteRemovesTree ==
    [][LET data   == request'.data
           t      == data.confirmation_token
           path   == normalize_path(data.path, fs).path
           stored == pending_confirmations[t]
       IN  (/\ ConfirmedOnDirectory(data)
            /\ data.recursive
            /\ stored.data.path = data.path
            /\ now <= stored.expiry_time)
              => /\ (stored.data.recursive /\ request'.oserror = "none")
                       => /\ response' = Reply(200, "DeletedRecursively", data.path)
                          /\ DOMAIN fs' = DOMAIN fs \ ({path} \cup Descendants(fs, path))
                          /\ \A q \in DOMAIN fs' : fs'[q] = fs[q]
                 /\ ~stored.data.recursive
                       => /\ response' = Reply(400, "ParameterMismatch", t)
                          /\ fs' = fs]_vars

C17_Witness ==
    /\ request.op = "delete_path"
    /\ request.data.path = P_SUB
    /\ response.kind = "DeletedRecursively"
    /\ <<"data", "sub">> \notin DOMAIN fs
    /\ <<"data", "sub", "file.txt">> \notin DOMAIN fs

\* ---------------------------------------------------------------- absent targets
\* the operations that act on an existing target, and the path argument
\* that names it
TargetOps == {"read_file", "edit_file", "delete_path", "move_path", "get_metadata"}

TargetOf(req) ==
    IF req.op = "move_path" THEN req.data.source_path ELSE req.data.path

\* the call gets as far as looking at its target: all its path arguments are
\* accepted and, for delete_path, it is a token-less call or one that passes
\* the token checks
LooksAtTarget(req) ==
    /\ \A i \in 1..Len(PathArgs(req)) : normalize_path(PathArgs(req)[i], fs).ok
    /\ req.op = "delete_path"
          => \/ req.data.confirmation_token = None
             \/ ReachesDeletion(req.data)

\* C18: read_file, edit_file, delete_path (both steps), move_path and
\* get_metadata called on a target that does not exist answer 404 NotFound
\* and leave the filesystem as it was
C18_AbsentTargetIs404 ==
    [][(/\ request'.op \in TargetOps
        /\ now' = now
        /\ LooksAtTarget(request')
        /\ NotFound(fs, normalize_path(TargetOf(request'), fs).path))
          => /\ response'.status = 404
             /\ response'.kind = "NotFound"
             /\ fs' = fs]_vars

\* ---------------------------------------------------------------- write_file properties
\* C19: a write_file call on an accepted path touches nothing but its
\* target; when the parent directory of the target does not exist it fails
\* and the filesystem stays as it was, neither parent nor file being
\* created; when the parent is a directory, the target is a regular file or
\* absent and the operating system raises nothing, it succeeds and the target
\* holds the supplied content, whatever it held before
C19_WriteTouchesOnlyTarget ==
    [][(request'.op = "write_file" /\ Guarded(request'.data))
        => LET data == request'.data
               p    == normalize_path(data.path, fs).path
           IN  /\ DOMAIN fs' \in {DOMAIN fs, DOMAIN fs \cup {p}}
               /\ \A q \in DOMAIN fs \ {p} : fs'[q] = fs[q]
               /\ ~exists(fs, Parent(p))
                     => response'.status >= 400 /\ fs' = fs
               /\ (/\ is_dir(fs, Parent(p))
                   /\ exists(fs, p) => is_file(fs, p)
                   /\ request'.oserror = "none")
                     => /\ response'.status = 200
                        /\ fs'[p] = File(data.content)]_vars

C19_Witness ==
    /\ request.op = "write_file"
    /\ request.data.path = P_FILE
    /\ response.status = 500
    /\ <<"data", "sub">> \notin DOMAIN fs
    /\ <<"data", "sub", "file.txt">> \notin DOMAIN fs

\* ---------------------------------------------------------------- concurrency properties
\* two different requests, both answered, that presented the same token
SameToken(i, j) ==
    /\ i # j
    /\ inflight[i].state = "answered"
    /\ inflight[j].state = "answered"
    /\ inflight[i].data.confirmation_token = inflight[j].data.confirmation_token

\* C20 as stated: of two requests presenting the same token, never both
\* perform a deletion, never both return success, and at most one passes
\* the token checks
C20_AtMostOnePassesTokenChecks ==
    \A i, j \in DOMAIN inflight :
        SameToken(i, j)
            => /\ ~(inflight[i].deleted /\ inflight[j].deleted)
               /\ ~(inflight[i].status = 200 /\ inflight[j].status = 200)
               /\ ~(inflight[i].passed /\ inflight[j].passed)

\* C20, amended: of two requests presenting the same token, never both
\* return success, and both pass the token checks or both delete something
\* only when one of them ended in a permission error, which keeps the token
C20_AtMostOneSucceeds ==
    \A i, j \in DOMAIN inflight :
        SameToken(i, j)
            => /\ ~(inflight[i].status = 200 /\ inflight[j].status = 200)
               /\ (\/ inflight[i].passed /\ inflight[j].passed
                   \/ inflight[i].deleted /\ inflight[j].deleted)
                     => \/ inflight[i].kind = "PermissionDenied"
                        \/ inflight[j].kind = "PermissionDenied"

C20_Witness ==
    /\ SameToken(1, 2)
    /\ inflight[1].kind \in Deleted
    /\ 2 \in inflight[1].concurrent
    /\ inflight[2].kind = "InvalidToken"
    /\ inflight[2].data = inflight[1].data

\* ---------------------------------------------------------------- confirmation properties
\* C21: a guarded delete_path call presenting a known, unexpired, matching
\* token for a path that no longer exists is answered 404 NotFound, deletes
\* nothing and evicts the token
C21_ExistenceRechecked ==
    [][LET data == request'.data
           t    == data.confirmation_token
       IN  (/\ DeleteCall /\ Guarded(data) /\ Known(t) /\ Matches(t, data)
            /\ ~exists(fs, normalize_path(data.path, fs).path))
              => /\ response' = Reply(404, "NotFound", data.path)
                 /\ fs' = fs
                 /\ t \notin DOMAIN pending_confirmations']_vars

C21_Witness ==
    /\ request.op = "delete_path"
    /\ request.data.path = P_FILE
    /\ request.data.confirmation_token = 2
    /\ response.kind = "NotFound"
    /\ <<"data", "sub", "file.txt">> \notin DOMAIN fs
    /\ DOMAIN pending_confirmations = {}

\* C22: as long as an entry is in the table, its stored path, recursive flag
\* and expiry are what they were, whatever step is taken
C22_EntryNeverAltered ==
    [][\A t \in DOMAIN pending_confirmations :
          t \in DOMAIN pending_confirmations'
              => pending_confirmations'[t] = pending_confirmations[t]]_vars

C22_Witness ==
    /\ DOMAIN pending_confirmations = {1, 2}
    /\ pending_confirmations[1].data.path = pending_confirmations[2].data.path
    /\ pending_confirmations[1].expiry_time # pending_confirmations[2].expiry_time
    /\ request.op = "delete_path"
    /\ response.kind = "PermissionDenied"

\* C25: delete_path checks in the order path guard, token known, expiry,
\* parameters: a call with a rejected path is answered 403 AccessDenied and
\* leaves table and filesystem alone, whatever token it presents; with an
\* accepted path an unknown token is InvalidToken, a known token past its
\* expiry is Expired whether or not the parameters match, and only an
\* unexpired token with other parameters is ParameterMismatch
C25_ChecksInFixedOrder ==
    [][DeleteCall =>
        LET data == request'.data
            t    == data.confirmation_token
        IN  /\ ~Guarded(data)
                  => /\ response'.status = 403
                     /\ response'.kind = "AccessDenied"
                     /\ pending_confirmations' = pending_confirmations
                     /\ fs' = fs
            /\ (Guarded(data) /\ t # None /\ ~Known(t))
                  => response'.kind = "InvalidToken"
            /\ (Guarded(data) /\ Known(t))
                  => LET stored == pending_confirmations[t]
                         differ == \/ stored.data.path # data.path
                                   \/ stored.data.recursive # data.recursive
                     IN  /\ now > stored.expiry_time => response'.kind = "Expired"
                         /\ (now <= stored.expiry_time /\ differ)
                               => response'.kind = "ParameterMismatch"]_vars

C25_Witness ==
    /\ request.op = "delete_path"
    /\ request.data.path = P_ESCAPE
    /\ request.data.confirmation_token \in DOMAIN pending_confirmations
    /\ response.kind = "AccessDenied"

\* a call presents a known token that is both past its expiry and issued
\* for other parameters
ExpiredAndMismatched ==
    LET data == request'.data
        t    == data.confirmation_token
    IN  /\ DeleteCall /\ Guarded(data) /\ Known(t)
        /\ now > pending_confirmations[t].expiry_time
        /\ pending_confirmations[t].data.recursive # data.recursive

\* ---------------------------------------------------------------- spellings of one path
\* C26: a guarded call presenting a known, unexpired token with the recursive
\* flag it was issued for, but another spelling of the path that normalizes
\* to the same file, is answered 400 ParameterMismatch, loses the token and
\* deletes nothing
C26_SpellingMustMatch ==
    [][LET data == request'.data
           t    == data.confirmation_token
       IN  (/\ DeleteCall /\ Guarded(data) /\ Known(t)
            /\ now <= pending_confirmations[t].expiry_time
            /\ pending_confirmations[t].data.recursive = data.recursive
            /\ pending_confirmations[t].data.path # data.path
            /\ normalize_path(pending_confirmations[t].data.path, fs).path
                   = normalize_path(data.path, fs).path)
              => /\ response' = Reply(400, "ParameterMismatch", t)
                 /\ t \notin DOMAIN pending_confirmations'
                 /\ fs' = fs]_vars

C26_Witness ==
    /\ request.op = "delete_path"
    /\ request.data.path \in {P_FILE_DOT, P_FILE_REL}
    /\ request.data.confirmation_token = 1
    /\ response = Reply(400, "ParameterMismatch", 1)
    /\ 1 \notin DOMAIN pending_confirmations
    /\ <<"data", "sub", "file.txt">> \in DOMAIN fs
    /\ normalize_path(request.data.path, fs).path = normalize_path(P_FILE, fs).path

\* ---------------------------------------------------------------- lifetime of an entry
\* C27: an entry leaves the table only in a step that is a delete_path call
\* presenting the entry's own token; the clock and every other handler leave
\* the table's keys in place
C27_LeavesOnlyByOwnToken ==
    [][\A t \in DOMAIN pending_confirmations :
          t \notin DOMAIN pending_confirmations'
              => /\ DeleteCall
                 /\ request'.data.confirmation_token = t
                 /\ now' = now]_vars

\* an entry past its expiry is still in the table after another handler ran
C27_Witness ==
    /\ 1 \in DOMAIN pending_confirmations
    /\ now > pending_confirmations[1].expiry_time
    /\ request.op \notin {"none", "delete_path"}

\* ---------------------------------------------------------------- read-side properties
\* the paths of the entries of a directory_tree answer, below prefix
RECURSIVE TreePaths(_, _)
TreePaths(prefix, tree) ==
    UNION {{Append(prefix, e.name)}
           \cup (IF e.type = "directory"
                 THEN TreePaths(Append(prefix, e.name), e.children)
                 ELSE {}) : e \in tree}

\* where the entry named by p lies: its directory with every symlink
\* resolved, and its own name
Location(p) == Append(RealPath(fs, <<>>, Parent(p)), p[Len(p)])

\* the files search_content opens and whose lines it returns
FilesOpened(data) ==
    {q \in GlobItems(fs, normalize_path(data.path, fs).path, data.file_pattern,
                     data.recursive) : IsFileEntry(fs, q)}

\* C23: every entry a successful list_directory, directory_tree, search_files
\* or search_content call on a directory inside an allowed root returns lies
\* inside an allowed root
C23_ReadStaysInsideRoots ==
    (response.status = 200 /\ InsideAllowedRoot(Canonical(request.data.path))) =>
        LET base == normalize_path(request.data.path, fs).path
        IN  CASE request.op = "list_directory" ->
                   \A e \in response.body :
                       InsideAllowedRoot(Location(Append(base, e.name)))
              [] request.op = "directory_tree" ->
                   \A q \in TreePaths(base, response.body) :
                       InsideAllowedRoot(Location(q))
              [] request.op = "search_files" ->
                   \A str \in response.body \ NoMatches :
                       InsideAllowedRoot(Location(ParsePath(str)))
              [] request.op = "search_content" ->
                   \A q \in FilesOpened(request.data) :
                       InsideAllowedRoot(Location(q))
              [] OTHER -> TRUE

\* the entries os.walk hands to the name test of search_files
Walked(base) == UNION {Children(fs, root) : root \in WalkRoots(fs, base)}

\* C28: after a search_files call without exclude patterns on an accepted
\* base path, a walked entry whose name contains the pattern is among the
\* matches exactly when normalize_path accepts its path
C28_RevalidationAgrees ==
    (/\ request.op = "search_files"
     /\ response.status = 200
     /\ request.data.excludePatterns = <<>>)
        => \A q \in Walked(normalize_path(request.data.path, fs).path) :
              Contains(LowerStr(Spell(q[Len(q)])), LowerStr(request.data.pattern))
                  => (PathStr(q) \in response.body <=> normalize_path(Abs(q), fs).ok)

\* ================================================================ servers/memory/main.py
\* The knowledge graph server.  Its only state is the file MEMORY_FILE_PATH,
\* one JSON object per line; every handler reads the whole file, changes the
\* graph in memory and writes the whole file back.  Names and observation
\* texts are strings of characters.
MaxItems == 2

Entity(name, entityType, observations) ==
    [name |-> name, entityType |-> entityType, observations |-> observations]

Relation(from_, to, relationType) ==
    [from_ |-> from_, to |-> to, relationType |-> relationType]

KnowledgeGraph(entities, relations) == [entities |-> entities, relations |-> relations]

\* line 101: json.dumps({"type": "entity", **e.dict()})
EntityWrapper(e) ==
    [type |-> "entity", name |-> e.name, entityType |-> e.entityType,
     observations |-> e.observations]

\* line 102: json.dumps({"type": "relation", **r.dict(by_alias=True)})
RelationWrapper(r) ==
    [type |-> "relation", from |-> r.from_, to |-> r.to, relationType |-> r.relationType]

\* lines 76-97: a missing file is the empty graph; the entity lines and the
\* relation lines are collected separately, each in file order
read_graph_file(file) ==
    IF ~file.exists
    THEN KnowledgeGraph(<<>>, <<>>)
    ELSE LET entities  == SelectSeq(file.lines, LAMBDA item : item.type = "entity")
             relations == SelectSeq(file.lines, LAMBDA item : item.type = "relation")
         IN  KnowledgeGraph(
                 [i \in DOMAIN entities |->
                     Entity(entities[i].name, entities[i].entityType,
                            entities[i].observations)],
                 [i \in DOMAIN relations |->
                     Relation(relations[i].from, relations[i].to,
                              relations[i].relationType)])

\* lines 100-106: the file is rewritten whole, entities first
save_graph(graph) ==
    [exists |-> TRUE,
     lines  |-> [i \in DOMAIN graph.entities |-> EntityWrapper(graph.entities[i])]
                \o [i \in DOMAIN graph.relations |-> RelationWrapper(graph.relations[i])]]

\* what a handler of the memory server leaves alone
MemRespond(op, req, reply, file) ==
    /\ request' = [op |-> op, data |-> req]
    /\ response' = reply
    /\ memory_file' = file
    /\ UNCHANGED <<fs, pending_confirmations, now, uuidCount, guard, inflight>>

Range(s) == {s[i] : i \in DOMAIN s}

\* lines 183-184
NewEntities(graph, req) ==
    LET existing_names == {e.name : e \in Range(graph.entities)}
    IN  SelectSeq(req.entities, LAMBDA e : e.name \notin existing_names)

\* lines 193-194
Triple(r) == <<r.from_, r.to, r.relationType>>

NewRelations(graph, req) ==
    LET existing == {Triple(r) : r \in Range(graph.relations)}
    IN  SelectSeq(req.relations, LAMBDA r : Triple(r) \notin existing)

\* lines 180-187
create_entities(req) ==
    LET graph        == read_graph_file(memory_file)
        new_entities == NewEntities(graph, req)
    IN  MemRespond("create_entities", req, Reply(200, "Created", new_entities),
                   save_graph(KnowledgeGraph(graph.entities \o new_entities,
                                             graph.relations)))

\* lines 190-197
create_relations(req) ==
    LET graph == read_graph_file(memory_file)
        new   == NewRelations(graph, req)
    IN  MemRespond("create_relations", req, Reply(200, "Created", new),
                   save_graph(KnowledgeGraph(graph.entities, graph.relations \o new)))

\* next((i for e in entities if e.name == name), None): the index of the
\* first entity of that name, 0 for None
FirstNamed(entities, name) ==
    IF \E i \in DOMAIN entities : entities[i].name = name
    THEN CHOOSE i \in DOMAIN entities :
             /\ entities[i].name = name
             /\ \A j \in 1..(i - 1) : entities[j].name # name
    ELSE 0

\* lines 205-213: the loop over req.observations, from item k on; it stops at
\* the first item whose lowercased entityName names no entity
RECURSIVE AddLoop(_, _, _, _)
AddLoop(entities, items, k, results) ==
    IF k > Len(items)
    THEN [found |-> TRUE, entities |-> entities, results |-> results]
    ELSE LET name     == LowerStr(items[k].entityName)
             contents == items[k].contents
             i        == FirstNamed(entities, name)
         IN  IF i = 0
             THEN [found |-> FALSE, name |-> name]
             ELSE LET added == SelectSeq(contents,
                                         LAMBDA c : c \notin Range(entities[i].observations))
                  IN  AddLoop([entities EXCEPT ![i].observations = @ \o added],
                              items, k + 1,
                              Append(results, [entityName |-> name,
                                               addedObservations |-> added]))

\* lines 200-216: the 404 of line 210 leaves before save_graph
add_observations(req) ==
    LET graph == read_graph_file(memory_file)
        loop  == AddLoop(graph.entities, req.observations, 1, <<>>)
    IN  IF ~loop.found
        THEN MemRespond("add_observations", req, Reply(404, "NotFound", loop.name),
                        memory_file)
        ELSE MemRespond("add_observations", req, Reply(200, "Added", loop.results),
                        save_graph(KnowledgeGraph(loop.entities, graph.relations)))

\* lines 219-229
delete_entities(req) ==
    LET graph == read_graph_file(memory_file)
        gone  == Range(req.entityNames)
    IN  MemRespond("delete_entities", req, Reply(200, "Deleted", "Entities deleted successfully"),
                   save_graph(KnowledgeGraph(
                       SelectSeq(graph.entities, LAMBDA e : e.name \notin gone),
                       SelectSeq(graph.relations,
                                 LAMBDA r : r.from_ \notin gone /\ r.to \notin gone))))

\* lines 236-243: the loop over req.deletions, from item k on
RECURSIVE DeleteLoop(_, _, _)
DeleteLoop(entities, deletions, k) ==
    IF k > Len(deletions)
    THEN entities
    ELSE LET name      == LowerStr(deletions[k].entityName)
             to_delete == Range(deletions[k].observations)
             i         == FirstNamed(entities, name)
         IN  DeleteLoop(IF i = 0 THEN entities
                        ELSE [entities EXCEPT ![i].observations =
                                 SelectSeq(@, LAMBDA obs : obs \notin to_delete)],
                        deletions, k + 1)

\* lines 232-246
delete_observations(req) ==
    LET graph == read_graph_file(memory_file)
    IN  MemRespond("delete_observations", req,
                   Reply(200, "Deleted", "Observations deleted successfully"),
                   save_graph(KnowledgeGraph(DeleteLoop(graph.entities, req.deletions, 1),
                                             graph.relations)))

\* lines 249-257
delete_relations(req) ==
    LET graph   == read_graph_file(memory_file)
        del_set == {Triple(r) : r \in Range(req.relations)}
    IN  MemRespond("delete_relations", req, Reply(200, "Deleted", "Relations deleted successfully"),
                   save_graph(KnowledgeGraph(
                       graph.entities,
                       SelectSeq(graph.relations, LAMBDA r : Triple(r) \notin del_set))))

\* ---------------------------------------------------------------- requests to the memory server
EntityNames == {<<"a">>, <<"A">>}

\* the lists of one to MaxItems elements of S
Lists(S) == UNION {[1..n -> S] : n \in 1..MaxItems}

Entities == {Entity(name, <<"t">>, <<>>) : name \in EntityNames}

Relations == {Relation(<<"a">>, <<"A">>, <<"r">>)}

CreateEntities == \E req \in [entities : Lists(Entities)] : create_entities(req)

CreateRelations == \E req \in [relations : Lists(Relations)] : create_relations(req)

AddObservations ==
    \E req \in [observations :
                  Lists([entityName : EntityNames,
                         contents : {<<<<"x">>>>, <<<<"x">>, <<"y">>>>}])] :
        add_observations(req)

DeleteEntities ==
    \E req \in [entityNames : {<<name>> : name \in EntityNames}] : delete_entities(req)

DeleteObservations ==
    \E req \in [deletions :
                  {<<d>> : d \in [entityName : EntityNames,
                                   observations : {<<<<"x">>>>}]}] :
        delete_observations(req)

DeleteRelations ==
    \E req \in [relations : {<<r>> : r \in Relations}] : delete_relations(req)

MemNext ==
    \/ CreateEntities
    \/ CreateRelations
    \/ AddObservations
    \/ DeleteEntities
    \/ DeleteObservations
    \/ DeleteRelations

\* the server starts without its file: the empty graph
SpecMem == Init /\ [][MemNext]_vars

\* ---------------------------------------------------------------- concurrent requests to the memory server
\* The handlers are plain "def" functions: the server runs each request in a
\* worker thread, so another request's handler can run between a handler's
\* read_graph_file (lines 182, 192) and its save_graph (lines 186, 196).
\* inflight[i] holds request i and the graph its handler has read.
ConcMemRequests ==
    {[op |-> "create_entities", data |-> [entities |-> <<e>>]] : e \in Entities}
    \cup {[op |-> "create_relations", data |-> [relations |-> <<r>>]] :
             r \in {Relation(<<"a">>, <<"A">>, <<"r">>), Relation(<<"A">>, <<"a">>, <<"r">>)}}

MemArrive(i) ==
    /\ inflight[i].state = "idle"
    /\ \E req \in ConcMemRequests :
          inflight' = [inflight EXCEPT ![i] = [state |-> "received", op |-> req.op,
                                               data |-> req.data]]
    /\ UNCHANGED <<fs, pending_confirmations, now, uuidCount, request, response, guard,
                   memory_file>>

\* lines 182 and 192: graph = read_graph_file()
MemRead(i) ==
    /\ inflight[i].state = "received"
    /\ inflight' = [inflight EXCEPT ![i] =
                       [state |-> "read", op |-> inflight[i].op, data |-> inflight[i].data,
                        graph |-> read_graph_file(memory_file)]]
    /\ UNCHANGED <<fs, pending_confirmations, now, uuidCount, request, response, guard,
                   memory_file>>

\* lines 183-187 and 193-197: the new items are added to the graph that was
\* read, and that graph is written
MemSave(i) ==
    /\ inflight[i].state = "read"
    /\ LET req   == inflight[i].data
           graph == inflight[i].graph
           new   == IF inflight[i].op = "create_entities"
                    THEN NewEntities(graph, req) ELSE NewRelations(graph, req)
       IN  /\ memory_file' =
                  save_graph(IF inflight[i].op = "create_entities"
                             THEN KnowledgeGraph(graph.entities \o new, graph.relations)
                             ELSE KnowledgeGraph(graph.entities, graph.relations \o new))
           /\ inflight' = [inflight EXCEPT ![i] =
                              [state |-> "answered", op |-> inflight[i].op, data |-> req,
                               body |-> new,
                               concurrent |-> {j \in 1..MaxRequests \ {i} :
                                                  inflight[j].state = "read"}]]
    /\ UNCHANGED <<fs, pending_confirmations, now, uuidCount, request, response, guard>>

MemConcNext == \E i \in 1..MaxRequests : MemArrive(i) \/ MemRead(i) \/ MemSave(i)

SpecMemConc == ConcInit /\ [][MemConcNext]_vars

\* ---------------------------------------------------------------- memory server properties
\* the loop of add_observations with the entityName compared as it was sent
RECURSIVE AddLoopExactName(_, _, _, _)
AddLoopExactName(entities, items, k, results) ==
    IF k > Len(items)
    THEN [found |-> TRUE, entities |-> entities, results |-> results]
    ELSE LET name     == items[k].entityName
             contents == items[k].contents
             i        == FirstNamed(entities, name)
         IN  IF i = 0
             THEN [found |-> FALSE, name |-> name]
             ELSE LET added == SelectSeq(contents,
                                         LAMBDA c : c \notin Range(entities[i].observations))
                  IN  AddLoopExactName([entities EXCEPT ![i].observations = @ \o added],
                                       items, k + 1,
                                       Append(results, [entityName |-> name,
                                                        addedObservations |-> added]))

AddedObservations(results) == [k \in DOMAIN results |-> results[k].addedObservations]

\* C24: an add_observations call whose every item carries the name of a
\* stored entity answers 200, returns for each item the contents that entity
\* did not have yet, and persists them appended in order; a call with an item
\* that names no stored entity answers 404 and leaves the file as it was
C24_AddObservationsByName ==
    [][request'.op = "add_observations" =>
        LET graph  == read_graph_file(memory_file)
            items  == request'.data.observations
            stored == {e.name : e \in Range(graph.entities)}
            loop   == AddLoopExactName(graph.entities, items, 1, <<>>)
        IN  IF \A k \in DOMAIN items : items[k].entityName \in stored
            THEN /\ response'.status = 200
                 /\ AddedObservations(response'.body) = AddedObservations(loop.results)
                 /\ read_graph_file(memory_file') =
                        KnowledgeGraph(loop.entities, graph.relations)
            ELSE /\ response'.status = 404
                 /\ memory_file' = memory_file]_vars

\* C29: no two entities of the persisted graph have the same name
C29_EntityNamesUnique ==
    LET entities == read_graph_file(memory_file).entities
    IN  \A i, j \in DOMAIN entities : entities[i].name = entities[j].name => i = j

\* the items a create_entities or create_relations request sends
Items(r) == IF r.op = "create_entities" THEN Range(r.data.entities)
            ELSE Range(r.data.relations)

Persisted(op) ==
    IF op = "create_entities" THEN Range(read_graph_file(memory_file).entities)
    ELSE Range(read_graph_file(memory_file).relations)

\* C30: once two create_entities (or two create_relations) requests with
\* different items have both been answered, the file holds the items of both
C30_NoLostUpdate ==
    \A i, j \in DOMAIN inflight :
        (/\ i # j
         /\ inflight[i].state = "answered"
         /\ inflight[j].state = "answered"
         /\ inflight[i].op = inflight[j].op
         /\ Items(inflight[i]) \cap Items(inflight[j]) = {})
            => Items(inflight[i]) \cup Items(inflight[j]) \subseteq Persisted(inflight[i].op)

====
